---- MODULE Spec2Model ----
(***************************************************************************)
(* Model of git-automate (src/main.py): main() resolves a directory list   *)
(* from --dirs and --file and runs push_changes on every existing entry.   *)
(* push_changes shells out to git; every external call is one step whose   *)
(* outcome (exit status, output text) is chosen by the environment.        *)
(*                                                                         *)
(* Text is a sequence of tokens: the whitespace tokens " " and "\n", and   *)
(* word tokens.  str.strip() removes leading and trailing whitespace       *)
(* tokens; the `in` substring test is membership of the marker token.      *)
(* git is assumed to be installed: launching it fails only when the cwd    *)
(* handed to subprocess.run is not a directory (NotADirectoryError, an     *)
(* OSError and not a subprocess.SubprocessError).                          *)
(***************************************************************************)
EXTENDS Integers, Sequences, FiniteSets, TLC

\* ---------------------------------------------------------------- bounds
MaxDirs == 2          \* longest --dirs list explored

\* ------------------------------------------------------------------ text
WS == {" ", "\n"}

RECURSIVE lstrip(_)
lstrip(s) == IF s # <<>> /\ Head(s) \in WS THEN lstrip(Tail(s)) ELSE s

RECURSIVE rstrip(_)
rstrip(s) ==
    IF s # <<>> /\ s[Len(s)] \in WS THEN rstrip(SubSeq(s, 1, Len(s) - 1)) ELSE s

strip(s) == rstrip(lstrip(s))

Contains(text, marker) == \E i \in 1..Len(text) : text[i] = marker

lower(c) == IF c = "Y" THEN "y" ELSE IF c = "N" THEN "n" ELSE c

\* Python's None / a present value, and truthiness of an optional string
None == [some |-> FALSE, val |-> <<>>]
Some(v) == [some |-> TRUE, val |-> v]
Truthy(o) == o.some /\ o.val # <<>>

\* ----------------------------------------------------- literal constants
UpToDateMarker == "Your branch is up to date"
PermissionMarker == "Permission denied"
CommitMessage == "Automated commit"
Remote == "origin"

\* ------------------------------------------------------------ environment
PathNames == {<<"A">>, <<"B">>}
FsKinds == {"missing", "file", "dir", "repo"}
Exists(f, p) == p \in DOMAIN f /\ f[p] # "missing"
HasGit(f, p) == p \in DOMAIN f /\ f[p] = "repo"
IsDir(f, p) == p \in DOMAIN f /\ f[p] \in {"dir", "repo"}

\* what `git status --porcelain` can print: nothing, or entry lines
PorcelainOutputs == {<<>>, <<" ", "M", " ", "a", "\n">>}
\* what `git status -uno` can print
UnoOutputs ==
    { <<"On branch", "\n", UpToDateMarker, "\n", "nothing to commit">>,
      <<"On branch", "\n", "Your branch is ahead", "\n", "nothing to commit">> }
\* what `git branch --show-current` can print (empty on a detached HEAD)
BranchOutputs == {<<>>, <<"main", "\n">>}
\* stderr of a failed `git push`
PushErrors == {<<"fatal:", " ", PermissionMarker, "\n">>, <<"rejected", "\n">>}
ExitCodes == {0, 1}

\* command line values
BranchArgs == {None, Some(<<>>), Some(<<"main">>), Some(<<"dev">>)}
Responses == {"y", "Y", "n"}
Replies == {<<"main">>, <<"dev">>}
FileContents ==
    { << <<"\n">>, <<" ", "\n">> >>,
      << <<"\n">>, <<" ", "A", " ", "\n">>, <<" ">> >> }
\* --file: absent, or a path whose open() fails or yields lines
File(given, open, lines) == [given |-> given, open |-> open, lines |-> lines]
FileArgs ==
    {File(FALSE, "ok", <<>>), File(TRUE, "ENOENT", <<>>), File(TRUE, "EACCES", <<>>)}
        \cup {File(TRUE, "ok", c) : c \in FileContents}
DirLists == UNION {[1..n -> PathNames] : n \in 0..MaxDirs}

\* ------------------------------------------------------------------ state
VARIABLES
    args,            \* parsed command line: dirs, file, branch
    fs,              \* filesystem: kind of every path
    pc,              \* position of the process
    directories,     \* main: resolved directory list
    idx,             \* main: loop position (1-based)
    exitCode,        \* process exit status, -1 while running
    status,          \* push_changes: value of check_git_status
    current_branch,  \* push_changes: value of get_current_branch
    target_branch,   \* push_changes: resolved target
    ops,             \* external operations of the current push_changes call
    out,             \* messages printed by the current push_changes call
    calls,           \* directories push_changes has been invoked on, in order
    results          \* returned values of the finished push_changes calls

vars == <<args, fs, pc, directories, idx, exitCode, status, current_branch,
          target_branch, ops, out, calls, results>>

Op(name, dir, arg, rc, text) ==
    [op |-> name, dir |-> dir, arg |-> arg, rc |-> rc, text |-> text]

Init ==
    /\ args \in [dirs : DirLists, file : FileArgs, branch : BranchArgs]
    /\ fs \in [PathNames -> FsKinds]
    /\ pc = "main"
    /\ directories = <<>>
    /\ idx = 0
    /\ exitCode = -1
    /\ status = "none"
    /\ current_branch = <<>>
    /\ target_branch = <<>>
    /\ ops = <<>>
    /\ out = <<>>
    /\ calls = <<>>
    /\ results = <<>>

\* ------------------------------------------------------------------- main
RECURSIVE NonBlankStripped(_)
NonBlankStripped(lines) ==
    IF lines = <<>> THEN <<>>
    ELSE IF strip(Head(lines)) # <<>>
         THEN <<strip(Head(lines))>> \o NonBlankStripped(Tail(lines))
         ELSE NonBlankStripped(Tail(lines))

Exit(code) ==
    /\ pc' = "exit"
    /\ exitCode' = code

\* main, argument resolution: --dirs, then --file, then the emptiness test
ParseArgs ==
    /\ pc = "main"
    /\ LET fromDirs == args.dirs
           fileOpens == args.file.given /\ args.file.open = "ok"
           fromFile == IF fileOpens THEN NonBlankStripped(args.file.lines) ELSE <<>>
           all == fromDirs \o fromFile
       IN  IF args.file.given /\ ~fileOpens
           THEN \* FileNotFoundError -> sys.exit(1); any other OSError is
                \* uncaught and ends the interpreter with status 1
                /\ Exit(1)
                /\ UNCHANGED <<directories, idx>>
           ELSE IF all = <<>>
           THEN /\ Exit(1)
                /\ directories' = all
                /\ UNCHANGED idx
           ELSE /\ directories' = all
                /\ idx' = 1
                /\ pc' = "loop"
                /\ UNCHANGED exitCode
    /\ UNCHANGED <<args, fs, status, current_branch, target_branch, ops, out,
                   calls, results>>

\* main, loop exhausted: the interpreter ends normally
LoopDone ==
    /\ pc = "loop"
    /\ idx > Len(directories)
    /\ Exit(0)
    /\ UNCHANGED <<args, fs, directories, idx, status, current_branch,
                   target_branch, ops, out, calls, results>>

\* main, a path that does not exist: warn and continue
SkipMissing ==
    /\ pc = "loop"
    /\ idx <= Len(directories)
    /\ ~Exists(fs, directories[idx])
    /\ idx' = idx + 1
    /\ UNCHANGED <<args, fs, pc, directories, exitCode, status, current_branch,
                   target_branch, ops, out, calls, results>>

\* main, an existing path: call push_changes(directory, args.branch)
CallPushChanges ==
    /\ pc = "loop"
    /\ idx <= Len(directories)
    /\ Exists(fs, directories[idx])
    /\ calls' = Append(calls, directories[idx])
    /\ pc' = "check"
    /\ status' = "none"
    /\ current_branch' = <<>>
    /\ target_branch' = <<>>
    /\ ops' = <<>>
    /\ out' = <<>>
    /\ UNCHANGED <<args, fs, directories, idx, exitCode, results>>

\* --------------------------------------------------------- check_git_status
StatusValues == {"not_initialized", "clean", "needs_commit", "needs_push", "error"}
Query(rc, stdout) == [rc |-> rc, stdout |-> stdout]

\* check_git_status without the test of the first query's exit status
check_git_status_NoRcTest(f, directory, q1, q2) ==
    IF ~HasGit(f, directory)
    THEN [ret |-> "not_initialized", ran |-> <<>>]
    ELSE LET r1 == Op("status --porcelain", directory, <<>>, q1.rc, q1.stdout)
             r2 == Op("status -uno", directory, <<>>, q2.rc, q2.stdout)
         IN  IF strip(q1.stdout) = <<>>
             THEN IF Contains(q2.stdout, UpToDateMarker)
                  THEN [ret |-> "clean", ran |-> <<r1, r2>>]
                  ELSE [ret |-> "needs_push", ran |-> <<r1, r2>>]
             ELSE [ret |-> "needs_commit", ran |-> <<r1>>]

\* check_git_status(directory): the returned value and the queries it ran.
\* q1, q2 are the outcomes of `git status --porcelain` and `git status -uno`.
check_git_status(f, directory, q1, q2) ==
    IF ~HasGit(f, directory)
    THEN [ret |-> "not_initialized", ran |-> <<>>]
    ELSE LET r1 == Op("status --porcelain", directory, <<>>, q1.rc, q1.stdout)
             r2 == Op("status -uno", directory, <<>>, q2.rc, q2.stdout)
         IN  IF q1.rc # 0
             THEN [ret |-> "error", ran |-> <<r1>>]
             ELSE IF strip(q1.stdout) = <<>>
             THEN IF Contains(q2.stdout, UpToDateMarker)
                  THEN [ret |-> "clean", ran |-> <<r1, r2>>]
                  ELSE [ret |-> "needs_push", ran |-> <<r1, r2>>]
             ELSE [ret |-> "needs_commit", ran |-> <<r1>>]

\* --------------------------------------------------------------- push_changes
Dir == directories[idx]

\* `return ret` from push_changes: back in the loop of main, next entry
Return(ret) ==
    /\ results' = Append(results, [dir |-> Dir, ret |-> ret])
    /\ idx' = idx + 1
    /\ pc' = "loop"
    /\ UNCHANGED exitCode

\* an exception no handler catches: traceback, interpreter status 1
Uncaught ==
    /\ Exit(1)
    /\ UNCHANGED <<results, idx>>

Goto(label) ==
    /\ pc' = label
    /\ UNCHANGED <<results, idx, exitCode>>

Say(msg) == out' = Append(out, msg)

\* subprocess.run(..., check=True) that never raises
CalledProcessError_Never(rc) == FALSE

\* subprocess.run(..., check=True) raises CalledProcessError on a non-zero exit
CalledProcessError(rc) == rc # 0

Step(label, ret, msg) == [next |-> label, ret |-> ret, msg |-> msg]

\* the dispatch without the early return on a clean repository
on_status_NoCleanReturn(s) ==
    IF s = "error"
    THEN Step("return", "False", "Error: Unable to check git status")
    ELSE IF s = "not_initialized"
    THEN Step("init", "", "Initializing git repository...")
    ELSE Step("branch", "", "")

\* the dispatch without the early return on a status error
on_status_NoErrorReturn(s) ==
    IF s = "not_initialized"
    THEN Step("init", "", "Initializing git repository...")
    ELSE IF s = "clean"
    THEN Step("return", "True", "Repository is clean and up to date")
    ELSE Step("branch", "", "")

\* push_changes, the tests on status that follow check_git_status
on_status(s) ==
    IF s = "error"
    THEN Step("return", "False", "Error: Unable to check git status")
    ELSE IF s = "not_initialized"
    THEN Step("init", "", "Initializing git repository...")
    ELSE IF s = "clean"
    THEN Step("return", "True", "Repository is clean and up to date")
    ELSE Step("branch", "", "")

\* push_changes: status = check_git_status(directory) and its dispatch
CheckStatus ==
    /\ pc = "check"
    /\ \E rc1 \in ExitCodes, o1 \in PorcelainOutputs,
          rc2 \in ExitCodes, o2 \in UnoOutputs :
          LET r == check_git_status(fs, Dir, Query(rc1, o1), Query(rc2, o2))
              probe == Op("exists .git", Dir, <<>>,
                          IF HasGit(fs, Dir) THEN 0 ELSE 1, <<>>)
              d == on_status(r.ret)
          IN  /\ status' = r.ret
              /\ ops' = <<probe>> \o r.ran
              /\ IF d.msg # "" THEN Say(d.msg) ELSE UNCHANGED out
              /\ IF d.next = "return" THEN Return(d.ret) ELSE Goto(d.next)
    /\ UNCHANGED <<args, fs, directories, current_branch, target_branch, calls>>

\* push_changes: subprocess.run(['git', 'init'], cwd=directory, check=True)
GitInit ==
    /\ pc = "init"
    /\ IF ~IsDir(fs, Dir)
       THEN \* cwd is not a directory: NotADirectoryError, not caught
            /\ ops' = Append(ops, Op("init", Dir, <<>>, -1, <<>>))
            /\ Uncaught
            /\ UNCHANGED <<fs, out>>
       ELSE \E rc \in ExitCodes :
            /\ ops' = Append(ops, Op("init", Dir, <<>>, rc, <<>>))
            /\ IF CalledProcessError(rc)
               THEN /\ Say("Error: Failed to initialize git repository")
                    /\ Return("False")
                    /\ UNCHANGED fs
               ELSE /\ fs' = [fs EXCEPT ![Dir] = IF rc = 0 THEN "repo" ELSE @]
                    /\ Goto("branch")
                    /\ UNCHANGED out
    /\ UNCHANGED <<args, directories, status, current_branch, target_branch, calls>>

\* get_current_branch(directory): stdout of `git branch --show-current`, stripped
get_current_branch(stdout) == strip(stdout)

\* push_changes: current_branch, its emptiness test and the test on status
GetBranch ==
    /\ pc = "branch"
    /\ \E rc \in ExitCodes, o \in BranchOutputs :
          LET cb == get_current_branch(o) IN
          /\ ops' = Append(ops, Op("branch --show-current", Dir, <<>>, rc, o))
          /\ current_branch' = cb
          /\ IF cb = <<>>
             THEN Say("Error: Unable to determine current branch") /\ Return("False")
             ELSE IF status \in {"needs_commit", "needs_push"}
             THEN Say("Adding changes...") /\ Goto("add")
             ELSE \* the function body ends: the call evaluates to None
                  UNCHANGED out /\ Return("None")
    /\ UNCHANGED <<args, fs, directories, status, target_branch, calls>>

\* push_changes: subprocess.run(['git', 'add', '.'], check=True)
GitAdd ==
    /\ pc = "add"
    /\ \E rc \in ExitCodes :
          /\ ops' = Append(ops, Op("add", Dir, <<".">>, rc, <<>>))
          /\ IF CalledProcessError(rc)
             THEN Say("Error during git operations") /\ Return("False")
             ELSE Say("Committing changes...") /\ Goto("commit")
    /\ UNCHANGED <<args, fs, directories, status, current_branch, target_branch, calls>>

\* push_changes: subprocess.run(['git', 'commit', '-m', 'Automated commit'], check=True)
GitCommit ==
    /\ pc = "commit"
    /\ \E rc \in ExitCodes :
          /\ ops' = Append(ops, Op("commit", Dir, <<CommitMessage>>, rc, <<>>))
          /\ IF CalledProcessError(rc)
             THEN Say("Error during git operations") /\ Return("False")
             ELSE UNCHANGED out /\ Goto("select")
    /\ UNCHANGED <<args, fs, directories, status, current_branch, target_branch, calls>>

Confirm(directory, response) == Op("input confirm", directory, <<>>, 0, <<response>>)
AskTarget(directory, reply) == Op("input target", directory, <<>>, 0, reply)

\* the branch selection comparing the answer with 'y' without lower()
select_branch_CaseSensitive(branch, current, directory, response, reply) ==
    IF Truthy(branch)
    THEN [target |-> branch.val, prompts |-> <<>>]
    ELSE IF response # "y"
    THEN [target |-> reply,
          prompts |-> <<Confirm(directory, response), AskTarget(directory, reply)>>]
    ELSE [target |-> current, prompts |-> <<Confirm(directory, response)>>]

\* push_changes, branch selection: the target and the prompts issued, given the
\* lines standard input supplies (response to the first prompt, reply to the second)
select_branch(branch, current, directory, response, reply) ==
    IF Truthy(branch)
    THEN [target |-> branch.val, prompts |-> <<>>]
    ELSE IF lower(response) # "y"
    THEN [target |-> reply,
          prompts |-> <<Confirm(directory, response), AskTarget(directory, reply)>>]
    ELSE [target |-> current, prompts |-> <<Confirm(directory, response)>>]

\* push_changes: branch selection and the comparison with the current branch
SelectBranch ==
    /\ pc = "select"
    /\ \/ \E response \in Responses, reply \in Replies :
             LET r == select_branch(args.branch, current_branch, Dir, response, reply) IN
             /\ target_branch' = r.target
             /\ ops' = ops \o r.prompts
             /\ IF r.target # current_branch
                THEN Say("Switching to branch") /\ Goto("checkout")
                ELSE Say("Pushing to branch") /\ Goto("push")
       \/ \* standard input at end of file: input() raises EOFError, not caught
          /\ ~Truthy(args.branch)
          /\ ops' = Append(ops, Op("input confirm", Dir, <<>>, -1, <<>>))
          /\ Uncaught
          /\ UNCHANGED <<target_branch, out>>
    /\ UNCHANGED <<args, fs, directories, status, current_branch, calls>>

\* push_changes: subprocess.run(['git', 'checkout', '-B', target_branch], check=True)
GitCheckout ==
    /\ pc = "checkout"
    /\ \E rc \in ExitCodes :
          /\ ops' = Append(ops, Op("checkout -B", Dir, target_branch, rc, <<>>))
          /\ IF CalledProcessError(rc)
             THEN Say("Error during git operations") /\ Return("False")
             ELSE Say("Pushing to branch") /\ Goto("push")
    /\ UNCHANGED <<args, fs, directories, status, current_branch, target_branch, calls>>

\* the handling of the push result that reports success whatever the exit status
push_result_IgnoresExit(rc, stderr) ==
    [ret |-> "True", msg |-> "Successfully pushed changes"]

\* push_changes: the value returned and the message printed for a push result
push_result(rc, stderr) ==
    IF rc # 0
    THEN IF Contains(stderr, PermissionMarker)
         THEN [ret |-> "False", msg |-> "Error: Permission denied"]
         ELSE [ret |-> "False", msg |-> "Error pushing changes"]
    ELSE [ret |-> "True", msg |-> "Successfully pushed changes"]

\* push_changes: git push origin target_branch and the test of its result
GitPush ==
    /\ pc = "push"
    /\ \E rc \in ExitCodes, err \in PushErrors :
          LET stderr == IF rc = 0 THEN <<>> ELSE err
              r == push_result(rc, stderr)
          IN  /\ ops' = Append(ops, Op("push", Dir, <<Remote>> \o target_branch, rc, stderr))
              /\ Say(r.msg)
              /\ Return(r.ret)
    /\ UNCHANGED <<args, fs, directories, status, current_branch, target_branch, calls>>

Next ==
    \/ ParseArgs
    \/ LoopDone
    \/ SkipMissing
    \/ CallPushChanges
    \/ CheckStatus
    \/ GitInit
    \/ GetBranch
    \/ GitAdd
    \/ GitCommit
    \/ SelectBranch
    \/ GitCheckout
    \/ GitPush

Spec == Init /\ [][Next]_vars

\* ----------------------------------------------------- reading the history
Indices(name) == {i \in 1..Len(ops) : ops[i].op = name}
Did(name) == Indices(name) # {}
Mutating == {"init", "add", "commit", "checkout -B", "push"}
Prompts == {"input confirm", "input target"}
\* the current push_changes call has returned, with value ret
Returned(ret) ==
    /\ calls # <<>>
    /\ Len(results) = Len(calls)
    /\ results[Len(results)].ret = ret

\* ------------------------------------------------------------------ claims
\* the one entry of the history with this name (callers test Did first)
The(name) == ops[CHOOSE i \in Indices(name) : TRUE]
Once(name) == Cardinality(Indices(name)) = 1

\* C1: check_git_status returns exactly one of the five values, decided by:
\* no .git -> not_initialized and no query is run; otherwise the porcelain
\* query exits non-zero -> error; otherwise its output is non-empty ->
\* needs_commit; otherwise the -uno query's text has the up-to-date marker ->
\* clean, and lacks it -> needs_push.
C1_StatusDecision ==
    status # "none" =>
        LET git == ops[1].op = "exists .git" /\ ops[1].rc = 0
            q1 == The("status --porcelain")
            q2 == The("status -uno")
        IN  /\ status \in StatusValues
            /\ ~git => /\ status = "not_initialized"
                       /\ ~Did("status --porcelain")
                       /\ ~Did("status -uno")
            /\ git => /\ Once("status --porcelain")
                      /\ q1.rc # 0 => status = "error" /\ ~Did("status -uno")
                      /\ (q1.rc = 0 /\ q1.text # <<>>) =>
                             status = "needs_commit" /\ ~Did("status -uno")
                      /\ (q1.rc = 0 /\ q1.text = <<>>) =>
                             /\ Once("status -uno")
                             /\ Contains(q2.text, UpToDateMarker) => status = "clean"
                             /\ ~Contains(q2.text, UpToDateMarker) => status = "needs_push"

\* C1 witness: a repository whose porcelain query succeeded with no output and
\* whose -uno text lacks the marker was classified
C1_Witness ==
    /\ status = "needs_push"
    /\ Did("status -uno")
    /\ ~Contains(The("status -uno").text, UpToDateMarker)

\* C2: every finished push_changes call returned exactly True or exactly False
C2_ReturnsBoolean ==
    \A i \in 1..Len(results) : results[i].ret \in {"True", "False"}

\* C3: with status needs_push neither stage-all nor commit is invoked
C3_NeedsPushNoStageCommit ==
    status = "needs_push" => ~Did("add") /\ ~Did("commit")

\* C4: with status needs_commit and a determinable branch, stage-all runs, then
\* commit with the fixed message, then push; push is attempted only after stage
\* and commit both succeeded; a failed stage or commit returns False, no push.
C4_StageCommitPush ==
    (status = "needs_commit" /\ current_branch # <<>>) =>
        /\ pc = "add" \/ Once("add")
        /\ Did("add") => The("add").arg = <<".">>
        /\ Did("commit") =>
              /\ Once("commit")
              /\ The("commit").arg = <<CommitMessage>>
              /\ The("add").rc = 0
              /\ \A a \in Indices("add"), c \in Indices("commit") : a < c
        /\ (Did("add") /\ The("add").rc = 0) => pc = "commit" \/ Did("commit")
        /\ \A p \in Indices("push") :
              /\ Did("commit") /\ The("commit").rc = 0
              /\ \A c \in Indices("commit") : c < p
        /\ \A i \in Indices("add") \cup Indices("commit") :
              ops[i].rc # 0 => Returned("False") /\ ~Did("push") /\ i = Len(ops)

\* C4 witness: pending changes were staged, committed and pushed
C4_Witness ==
    /\ status = "needs_commit"
    /\ Did("add") /\ Did("commit") /\ Did("push")
    /\ The("push").rc = 0

\* C5: the resolved list is visited left to right; a missing path gets no
\* version-control operation; push_changes is invoked exactly once on every
\* existing entry, whatever happened on the earlier ones.
C5_EveryExistingDirectoryVisited ==
    /\ \A i \in 1..Len(ops) : Exists(fs, ops[i].dir)
    /\ \A i \in 1..Len(calls) : Exists(fs, calls[i])
    /\ (pc = "exit" /\ directories # <<>>) =>
           calls = SelectSeq(directories, LAMBDA d : Exists(fs, d))

\* C6: exit status 1 and no push_changes call when --file cannot be opened or
\* no directory is resolved; in every other run exit status 0 after
\* push_changes ran on every existing directory.
C6_ExitStatus ==
    pc = "exit" =>
        IF (args.file.given /\ args.file.open # "ok") \/ directories = <<>>
        THEN exitCode = 1 /\ calls = <<>>
        ELSE /\ exitCode = 0
             /\ calls = SelectSeq(directories, LAMBDA d : Exists(fs, d))

\* C7: with status clean, push_changes invokes no init, stage, commit, branch
\* switch or push, reads no answer from the user, and returns True.
C7_CleanNoAction ==
    status = "clean" =>
        /\ \A i \in 1..Len(ops) : ops[i].op \notin Mutating \cup Prompts
        /\ Returned("True")

\* C7 witness: a clean repository was processed
C7_Witness == status = "clean" /\ Returned("True")

\* C8: with status error, push_changes returns False and invokes no init,
\* stage, commit, branch switch or push.
C8_ErrorAborts ==
    status = "error" =>
        /\ \A i \in 1..Len(ops) : ops[i].op \notin Mutating
        /\ Returned("False")

\* C8 witness: the porcelain query exited non-zero and the call returned
C8_Witness ==
    /\ status = "error"
    /\ The("status --porcelain").rc # 0
    /\ Returned("False")

\* C9: a push that exits non-zero makes push_changes return False, with the
\* permission message iff stderr contains "Permission denied" and the raw-error
\* message otherwise; the push is issued at most once; after a push attempt
\* True is returned only when the push exited zero.
C9_PushFailure ==
    Did("push") =>
        /\ Once("push")
        /\ The("push").rc # 0 =>
              /\ Returned("False")
              /\ out[Len(out)] = IF Contains(The("push").text, PermissionMarker)
                                 THEN "Error: Permission denied"
                                 ELSE "Error pushing changes"
        /\ Returned("True") => The("push").rc = 0

\* C9 witness: a push was refused with a permission error
C9_Witness ==
    /\ Did("push")
    /\ The("push").rc # 0
    /\ Contains(The("push").text, PermissionMarker)

====
